---- MODULE Spec2Model ----
(***************************************************************************)
(* Katacombs: the World / WorldBuilder / Location / Player aggregates, the *)
(* in-memory repositories and the start-game command handler.              *)
(*                                                                         *)
(* Python objects are modelled as entries of heaps (sequences indexed by   *)
(* reference), so that two names for one mutable object (aliasing) and a   *)
(* copy of it are different things.  Mappings are insertion-ordered        *)
(* sequences of <<key, value>> pairs, as Python dicts are.  Text that the  *)
(* code inspects character by character (identifiers, player names) is a   *)
(* sequence of one-character strings; text the code only carries around    *)
(* (descriptions, item names) is a string.                                 *)
(***************************************************************************)
EXTENDS Integers, Sequences, FiniteSets, TLC

VARIABLES
    locs,        \* heap of Location objects
    dicts,       \* heap of dict[Sid, Location] objects (values are Location references)
    inputs,      \* references of the mappings the caller built itself
    returned,    \* references of the mappings handed out by get_all_locations
    bStart,      \* WorldBuilder._starting_location_sid
    worlds,      \* the World objects constructed so far
    plrs,        \* heap of Player objects
    store,       \* InMemoryPlayerRepository._players (values are Player references)
    repoWorld,   \* InMemoryWorldRepository._world (a World reference, 0 before wiring)
    calls,       \* per thread: the repository call it is in, or was last in
    boundedBag,  \* a capacity-bounded Bag object (katacombs.domain.entities)
    ops,         \* number of operations performed (bounded in Spec only)
    last         \* the last operation: its name, arguments and outcome

vars == <<locs, dicts, inputs, returned, bStart, worlds, plrs, store, repoWorld, calls,
          boundedBag, ops, last>>

----------------------------------------------------------------------------
(* Bounds                                                                  *)

MaxLocs == 5
MaxCustomLocs == 2
MaxOps == 4
MaxDicts == 4
MaxWorlds == 2
MaxPlayers == 2
MaxThreads == 2
MaxCapacity == 3

----------------------------------------------------------------------------
(* Values                                                                  *)

\* Python's None where a Sid is expected, and where a reference is expected.
None == <<>>
NoRef == 0

Seg1Len == 6
Seg2Len == 12
Seg3Len == 8

Digits == {"0", "1", "2", "3", "4", "5", "6", "7", "8", "9"}

Rep(n, c) == [i \in 1..n |-> c]

\* The text "cccccc-cccccccccccc-cccccccc".
SidText(c) == Rep(Seg1Len, c) \o <<"-">> \o Rep(Seg2Len, c) \o <<"-">> \o Rep(Seg3Len, c)

\* Identifiers the caller supplies for locations and for items.
LocSids == {SidText("1"), SidText("2"), SidText("3")}
ItemSids == {SidText("9")}

\* The identifier triples (entrance, north corridor, east chamber) the caller
\* supplies to create_starter_world: distinct ones, and ones that repeat.
S1 == SidText("1")
S2 == SidText("2")
S3 == SidText("3")
StarterSids == {<<S1, S2, S3>>, <<S1, S1, S2>>, <<S1, S2, S2>>}

\* Texts a start-game command carries as player_sid: two well-formed ones, one
\* that is not an identifier at all, one with a newline after the last digit.
SidInputs == {SidText("7"), SidText("8"), <<"b", "a", "d">>, SidText("7") \o <<"\n">>}

\* Texts a start-game command carries as player_name.
Names == {<<>>, <<" ", "\t">>, <<" ", "A", "l", " ">>}

\* The add_exit calls the caller makes on Location objects it holds: an exit
\* with a destination, and a blocked exit.
ExitInputs == {<<"south", S2>>, <<"north", None>>}

Direction == {"north", "south", "east", "west"}
Action == {"pick", "use"}

\* Descriptions the caller gives to the locations it constructs itself.
Descriptions == {"Custom room"}

EntranceDescription ==
    "You are in the entrance hall of the ancient Katacombs. Torches flicker on the stone walls, casting dancing shadows. You can feel a cool breeze coming from deeper in the tunnels."
NorthCorridorDescription ==
    "A narrow stone corridor extends to the north. The walls are carved with ancient symbols."
EastChamberDescription ==
    "A small chamber with a low ceiling. Water drips steadily from somewhere above."

----------------------------------------------------------------------------
(* dict: insertion-ordered, keys unique                                    *)

DictKeys(d) == {d[i][1] : i \in 1..Len(d)}
DictHas(d, k) == k \in DictKeys(d)
DictIdx(d, k) == CHOOSE i \in 1..Len(d) : d[i][1] = k
\* d.get(k): the value, or the absence marker given
DictGet(d, k, absent) == IF DictHas(d, k) THEN d[DictIdx(d, k)][2] ELSE absent
\* d[k] = v: overwrites in place, or appends a new key
DictSet(d, k, v) ==
    IF DictHas(d, k) THEN [d EXCEPT ![DictIdx(d, k)] = <<k, v>>] ELSE Append(d, <<k, v>>)
\* del d[k]
DictDel(d, k) == SelectSeq(d, LAMBDA e : e[1] # k)
\* d.values(), in order
DictValues(d) == [i \in 1..Len(d) |-> d[i][2]]

----------------------------------------------------------------------------
(* Item and Location                                                       *)

Item(sid, name, description, available_actions) ==
    [sid |-> sid, name |-> name, description |-> description,
     available_actions |-> available_actions]

\* Location(sid, description): no exits, no items
Location(sid, description) ==
    [sid |-> sid, description |-> description, exits |-> <<>>, items |-> <<>>]

\* Location.add_exit: self.exits[direction] = destination_sid
add_exit(loc, direction, destination) ==
    [loc EXCEPT !.exits = DictSet(loc.exits, direction, destination)]

\* Location.get_available_directions that lists every direction ever added.
AvailableIncludesBlocked(loc) == [i \in 1..Len(loc.exits) |-> loc.exits[i][1]]

\* Location.get_available_directions: the keys whose destination is not None, in order
get_available_directions(loc) ==
    LET open == SelectSeq(loc.exits, LAMBDA e : e[2] # None)
    IN  [i \in 1..Len(open) |-> open[i][1]]

\* Item.__eq__: two items are the same item when their sids are equal
ItemIn(item, items) == \E i \in 1..Len(items) : items[i].sid = item.sid

\* Location.add_item: appends unless an equal item is already there
add_item(loc, item) ==
    IF ItemIn(item, loc.items) THEN loc ELSE [loc EXCEPT !.items = Append(loc.items, item)]

\* Location.remove_item: removes the first item with that sid
remove_item(loc, item_sid) ==
    IF \E i \in 1..Len(loc.items) : loc.items[i].sid = item_sid
    THEN LET k == CHOOSE i \in 1..Len(loc.items) :
                    /\ loc.items[i].sid = item_sid
                    /\ \A j \in 1..(i - 1) : loc.items[j].sid # item_sid
         IN  [loc EXCEPT !.items =
                 [i \in 1..(Len(loc.items) - 1) |->
                     IF i < k THEN loc.items[i] ELSE loc.items[i + 1]]]
    ELSE loc

----------------------------------------------------------------------------
(* World                                                                   *)

\* World.__init__ without the defensive copy: keeps the caller's mapping.
WorldInitAliased(ds, d, starting_location_sid) ==
    IF ~DictHas(ds[d], starting_location_sid)
    THEN [raised |-> "ValueError", dicts |-> ds, world |-> [locations |-> NoRef, start |-> None]]
    ELSE [raised |-> "", dicts |-> ds,
          world |-> [locations |-> d, start |-> starting_location_sid]]

\* World.__init__ accepting a starting location that is not in the mapping.
WorldInitUnchecked(ds, d, starting_location_sid) ==
    [raised |-> "", dicts |-> Append(ds, ds[d]),
     world |-> [locations |-> Len(ds) + 1, start |-> starting_location_sid]]

\* World.__init__(locations, starting_location_sid), where locations is the
\* mapping object ds[d]: copies the mapping into a new object, then validates.
WorldInit(ds, d, starting_location_sid) ==
    LET copied == Append(ds, ds[d])
        self == [locations |-> Len(copied), start |-> starting_location_sid]
    IN  IF ~DictHas(copied[self.locations], starting_location_sid)
        THEN [raised |-> "ValueError", dicts |-> ds,
              world |-> [locations |-> NoRef, start |-> None]]
        ELSE [raised |-> "", dicts |-> copied, world |-> self]

\* World.get_location
get_location(ds, w, location_sid) == DictGet(ds[w.locations], location_sid, NoRef)

\* World.has_location
has_location(ds, w, location_sid) == DictHas(ds[w.locations], location_sid)

\* World.get_starting_location: self._locations[self._starting_location_sid],
\* a KeyError when the key is missing
get_starting_location(ds, w) ==
    IF DictHas(ds[w.locations], w.start)
    THEN [raised |-> "", ret |-> DictGet(ds[w.locations], w.start, NoRef)]
    ELSE [raised |-> "KeyError", ret |-> NoRef]

\* World.get_all_locations that hands out the entries and keeps none.
GetAllLocationsDrains(ds, w) ==
    [dicts |-> Append([ds EXCEPT ![w.locations] = <<>>], ds[w.locations]),
     ret |-> Len(ds) + 1]

\* World.get_all_locations handing out the World's own mapping.
GetAllLocationsAliased(ds, w) == [dicts |-> ds, ret |-> w.locations]

\* World.get_all_locations: a new mapping object with the same entries
GetAllLocations(ds, w) == [dicts |-> Append(ds, ds[w.locations]), ret |-> Len(ds) + 1]

\* World.get_item_by_sid: first item with that sid, scanning locations in order
AllItems(ds, ls, w) ==
    LET refs == DictValues(ds[w.locations])
        F[i \in 0..Len(refs)] == IF i = 0 THEN <<>> ELSE F[i - 1] \o ls[refs[i]].items
    IN  F[Len(refs)]

NoItem == Item(None, "", "", <<>>)

get_item_by_sid(ds, ls, w, item_sid) ==
    LET all == SelectSeq(AllItems(ds, ls, w), LAMBDA it : it.sid = item_sid)
    IN  IF Len(all) = 0 THEN NoItem ELSE all[1]

----------------------------------------------------------------------------
(* Sid, Bag and Player                                                     *)

SidLen == Seg1Len + 1 + Seg2Len + 1 + Seg3Len

\* Sid._is_valid: re.match(r"^[0-9]{6}-[0-9]{12}-[0-9]{8}$", value).  match
\* anchors at the start; "$" matches at the end of the text and also just
\* before a newline that is the text's last character.
IsValid(value) ==
    /\ Len(value) >= SidLen
    /\ \A i \in 1..SidLen :
           IF i = Seg1Len + 1 \/ i = Seg1Len + 1 + Seg2Len + 1
           THEN value[i] = "-"
           ELSE value[i] \in Digits
    /\ \/ Len(value) = SidLen
       \/ Len(value) = SidLen + 1 /\ value[SidLen + 1] = "\n"

\* Sid(value): __post_init__ raises ValueError unless _is_valid(value); the
\* object holds the text unchanged, and str(sid) returns it
SidInit(value) ==
    IF IsValid(value)
    THEN [raised |-> "", msg |-> <<>>, sid |-> value]
    ELSE [raised |-> "ValueError", msg |-> <<"Invalid Sid format: ", value>>, sid |-> None]

\* Characters str.strip() removes.
Whitespace == {" ", "\t", "\n", "\r", "\f"}

\* str.strip(): drops the leading and the trailing whitespace
Strip(s) ==
    LET keep == {i \in 1..Len(s) : s[i] \notin Whitespace}
    IN  IF keep = {} THEN <<>>
        ELSE SubSeq(s, CHOOSE i \in keep : \A j \in keep : i <= j,
                       CHOOSE i \in keep : \A j \in keep : i >= j)

\* katacombs.domain.entities.Bag(items, max_capacity): the capacity-bounded
\* variant, holding Item objects; max_capacity defaults to 10
DefaultCapacity == 10
BoundedBag(items, max_capacity) == [items |-> items, max_capacity |-> max_capacity]

\* Bag.is_full
is_full(b) == Len(b.items) >= b.max_capacity

\* Bag.add_item without the capacity test.
BagAddUnchecked(b, item) ==
    [raised |-> "", msg |-> <<>>,
     bag |-> IF ItemIn(item, b.items) THEN b ELSE [b EXCEPT !.items = Append(b.items, item)]]

\* Bag.add_item (bounded variant): ValueError when full, else append unless
\* an equal item is already there
BagAddItem(b, item) ==
    IF is_full(b)
    THEN [raised |-> "ValueError", msg |-> <<"Bag is full, cannot add more items">>, bag |-> b]
    ELSE [raised |-> "", msg |-> <<>>,
          bag |-> IF ItemIn(item, b.items) THEN b ELSE [b EXCEPT !.items = Append(b.items, item)]]

\* Bag.remove_item (bounded variant): removes the first item with that sid
\* and returns it, or returns None
BagRemoveItem(b, item_sid) ==
    LET hits == {i \in 1..Len(b.items) : b.items[i].sid = item_sid}
    IN  IF hits = {}
        THEN [ret |-> NoItem, bag |-> b]
        ELSE LET first == CHOOSE i \in hits : \A j \in hits : i <= j
             IN  [ret |-> b.items[first],
                  bag |-> [b EXCEPT !.items = SubSeq(b.items, 1, first - 1)
                                                \o SubSeq(b.items, first + 1, Len(b.items))]]

\* Bag(): no items
Bag == [item_sids |-> <<>>]

NoPlayer == <<>>

\* Player.create that only rejects the empty name (no strip in the test).
PlayerCreateUnstripped(sid, name, location, bag) ==
    IF name = <<>>
    THEN [raised |-> "ValueError", msg |-> <<"Player name cannot be empty">>, player |-> NoPlayer]
    ELSE [raised |-> "", msg |-> <<>>,
          player |-> [sid |-> sid, name |-> Strip(name), location |-> location, bag |-> bag,
                      is_active |-> TRUE]]

\* Player.create: the dataclass fields are sid, name, location, bag, is_active
PlayerCreate(sid, name, location, bag) ==
    IF Strip(name) = <<>>
    THEN [raised |-> "ValueError", msg |-> <<"Player name cannot be empty">>, player |-> NoPlayer]
    ELSE [raised |-> "", msg |-> <<>>,
          player |-> [sid |-> sid, name |-> Strip(name), location |-> location, bag |-> bag,
                      is_active |-> TRUE]]

----------------------------------------------------------------------------
(* StartGameCommandHandler                                                 *)

NoData == <<>>

success_response(player_data) ==
    [success |-> TRUE, player_data |-> player_data, error_message |-> <<>>]
error_response(error_message) ==
    [success |-> FALSE, player_data |-> NoData, error_message |-> error_message]

ItemData(item) == [sid |-> item.sid, name |-> item.name, description |-> item.description]

\* _convert_player_to_data(player, world).  Reading an attribute the object
\* does not have raises AttributeError.
ConvertPlayerToData(ds, ls, player, world) ==
    IF "location_sid" \notin DOMAIN player
    THEN [raised |-> "AttributeError", msg |-> <<"location_sid">>, data |-> NoData]
    ELSE
    LET location == get_location(ds, world, player.location_sid)
    IN  IF location = NoRef
        THEN [raised |-> "ValueError",
              msg |-> <<"Location not found for player: ", player.location_sid>>,
              data |-> NoData]
        ELSE
        LET items == ls[location].items
            location_data ==
                [description |-> ls[location].description,
                 exits |-> get_available_directions(ls[location]),
                 items |-> [i \in 1..Len(items) |-> ItemData(items[i])]]
            found == SelectSeq(player.bag.item_sids,
                               LAMBDA s : get_item_by_sid(ds, ls, world, s) # NoItem)
            bag_data ==
                [items |-> [i \in 1..Len(found) |->
                               ItemData(get_item_by_sid(ds, ls, world, found[i]))]]
        IN  [raised |-> "", msg |-> <<>>,
             data |-> [sid |-> player.sid, name |-> player.name,
                       location |-> location_data, bag |-> bag_data]]

Outcome(raised, response, ps, st, saves) ==
    [raised |-> raised, response |-> response, plrs |-> ps, store |-> st, saves |-> saves]

NoResponse == <<>>

\* StartGameCommandHandler.execute(command) on the player heap ps and the player
\* store st.  ValueError becomes an error response with the error's text;
\* RuntimeError, OSError and KeyError become "Failed to start game: ..."; any
\* other exception leaves execute.
Execute(ds, ls, ps, st, world, player_name, player_sid) ==
    LET starting == get_starting_location(ds, world)
    IN  IF starting.raised = "KeyError"
        THEN Outcome("", error_response(<<"Failed to start game: ", world.start>>), ps, st, 0)
        \* "if not starting_location" is never taken: a Location object is truthy
        ELSE IF ~IsValid(player_sid)
        THEN Outcome("", error_response(<<"Invalid Sid format: ", player_sid>>), ps, st, 0)
        ELSE
        LET created == PlayerCreate(player_sid, player_name, ls[starting.ret].sid, Bag)
        IN  IF created.raised = "ValueError"
            THEN Outcome("", error_response(created.msg), ps, st, 0)
            ELSE
            LET saved == Append(ps, created.player)
                st2 == DictSet(st, created.player.sid, Len(saved))
                conv == ConvertPlayerToData(ds, ls, created.player, world)
            IN  IF conv.raised = "ValueError"
                THEN Outcome("", error_response(conv.msg), saved, st2, 1)
                ELSE IF conv.raised # ""
                THEN Outcome(conv.raised, NoResponse, saved, st2, 1)
                ELSE Outcome("", success_response(conv.data), saved, st2, 1)

----------------------------------------------------------------------------
(* WorldBuilder.  Its _locations mapping is one object for the builder's   *)
(* whole life (created in __init__, emptied in place by _clear).           *)

BuilderDict == 1

\* WorldBuilder._clear that forgets the starting location but keeps the locations.
ClearKeepsLocations(d) == [locations |-> d, start |-> None]

\* WorldBuilder._clear: self._locations.clear(); self._starting_location_sid = None
Clear(d) == [locations |-> <<>>, start |-> None]

\* WorldBuilder._build that does not require a starting location to be set.
BuildUnguarded(ds, start) ==
    IF start = None
    THEN [raised |-> "", dicts |-> Append(ds, ds[BuilderDict]),
          world |-> [locations |-> Len(ds) + 1, start |-> None]]
    ELSE WorldInit(ds, BuilderDict, start)

\* WorldBuilder._build that empties the builder once the World is made.
BuildClearsBuilder(ds, start) ==
    IF start = None
    THEN [raised |-> "ValueError", dicts |-> ds, world |-> [locations |-> NoRef, start |-> None]]
    ELSE LET r == WorldInit(ds, BuilderDict, start)
         IN  IF r.raised # "" THEN r
             ELSE [r EXCEPT !.dicts = [r.dicts EXCEPT ![BuilderDict] = <<>>]]

\* WorldBuilder._build
Build(ds, start) ==
    IF start = None
    THEN [raised |-> "ValueError", dicts |-> ds, world |-> [locations |-> NoRef, start |-> None]]
    ELSE WorldInit(ds, BuilderDict, start)

Torch(torch_sid) ==
    Item(torch_sid, "Torch", "A flickering torch that provides light in the darkness",
         <<"pick", "use">>)

\* The starter locations with the return exits of the two rooms swapped.
StarterLocationsSwapped(entrance_sid, north_corridor_sid, east_chamber_sid, torch_sid) ==
    << add_item(add_exit(add_exit(Location(entrance_sid, EntranceDescription),
                                  "north", north_corridor_sid),
                         "east", east_chamber_sid),
                Torch(torch_sid)),
       add_exit(Location(north_corridor_sid, NorthCorridorDescription), "west", entrance_sid),
       add_exit(Location(east_chamber_sid, EastChamberDescription), "south", entrance_sid) >>

\* The three Location objects create_starter_world constructs, connects and fills.
StarterLocations(entrance_sid, north_corridor_sid, east_chamber_sid, torch_sid) ==
    << add_item(add_exit(add_exit(Location(entrance_sid, EntranceDescription),
                                  "north", north_corridor_sid),
                         "east", east_chamber_sid),
                Torch(torch_sid)),
       add_exit(Location(north_corridor_sid, NorthCorridorDescription), "south", entrance_sid),
       add_exit(Location(east_chamber_sid, EastChamberDescription), "west", entrance_sid) >>

----------------------------------------------------------------------------
(* The state                                                               *)

Result(op, args, raised, ret) == [op |-> op, args |-> args, raised |-> raised, ret |-> ret]

\* The threads that call the player repository, and a thread that is in no call.
Threads == 1..MaxThreads
Idle == [op |-> "", sid |-> None, pc |-> "idle", raised |-> "", ret |-> FALSE]

Init ==
    /\ locs = <<>>
    /\ dicts = << <<>> >>          \* WorldBuilder.__init__: self._locations = {}
    /\ inputs = {}
    /\ returned = {}
    /\ bStart = None               \* WorldBuilder.__init__: no starting location
    /\ worlds = <<>>
    /\ plrs = <<>>
    /\ store = <<>>
    /\ repoWorld = NoRef
    /\ calls = [t \in Threads |-> Idle]
    /\ boundedBag = BoundedBag(<<>>, DefaultCapacity)
    /\ ops = 0
    /\ last = Result("init", <<>>, "", NoRef)

LocRefs == 1..Len(locs)
WorldRefs == 1..Len(worlds)

game == <<plrs, store, repoWorld, calls, boundedBag>>

\* Every operation counts; a run has at most MaxOps of them.
Step == ops < MaxOps /\ ops' = ops + 1

----------------------------------------------------------------------------
(* What the caller does with Location objects and mappings of its own      *)

\* Location(sid, description) with a non-blank description
NewLocation(sid, description) ==
    /\ Len(locs) < MaxCustomLocs
    /\ locs' = Append(locs, Location(sid, description))
    /\ Step
    /\ last' = Result("Location", <<sid, description>>, "", Len(locs) + 1)
    /\ UNCHANGED <<dicts, inputs, returned, bStart, worlds, game>>

\* location.add_exit(direction, destination) on any Location the caller can reach
LocAddExit(l, direction, destination) ==
    /\ locs' = [locs EXCEPT ![l] = add_exit(locs[l], direction, destination)]
    /\ Step
    /\ last' = Result("add_exit", <<l, direction, destination>>, "", NoRef)
    /\ UNCHANGED <<dicts, inputs, returned, bStart, worlds, game>>

\* location.add_item(item)
LocAddItem(l, item) ==
    /\ locs' = [locs EXCEPT ![l] = add_item(locs[l], item)]
    /\ Step
    /\ last' = Result("add_item", <<l, item.sid>>, "", NoRef)
    /\ UNCHANGED <<dicts, inputs, returned, bStart, worlds, game>>

\* location.remove_item(item_sid)
LocRemoveItem(l, item_sid) ==
    /\ locs' = [locs EXCEPT ![l] = remove_item(locs[l], item_sid)]
    /\ Step
    /\ last' = Result("remove_item", <<l, item_sid>>, "", NoRef)
    /\ UNCHANGED <<dicts, inputs, returned, bStart, worlds, game>>

\* locations = {location.sid: location}
NewDict(l) ==
    /\ Len(dicts) < MaxDicts
    /\ dicts' = Append(dicts, << <<locs[l].sid, l>> >>)
    /\ inputs' = inputs \cup {Len(dicts) + 1}
    /\ Step
    /\ last' = Result("dict", <<l>>, "", Len(dicts) + 1)
    /\ UNCHANGED <<locs, returned, bStart, worlds, game>>

\* The caller changes a mapping it holds: m[l.sid] = l (a new entry, or another
\* Location under a key already there), del m[k] or m.clear().
MutateDict(d, how, k, l) ==
    /\ \/ /\ how = "set"
          /\ l \in LocRefs
          /\ k = locs[l].sid
          /\ dicts' = [dicts EXCEPT ![d] = DictSet(dicts[d], k, l)]
       \/ /\ how = "del"
          /\ DictHas(dicts[d], k)
          /\ l = DictGet(dicts[d], k, NoRef)
          /\ dicts' = [dicts EXCEPT ![d] = DictDel(dicts[d], k)]
       \/ /\ how = "clear"
          /\ k = None
          /\ l = NoRef
          /\ dicts' = [dicts EXCEPT ![d] = <<>>]

Hows == {"set", "del", "clear"}

\* ... a mapping it built itself (possibly one it passed to World's constructor)
MutateInput(d, how, k, l) ==
    /\ d \in inputs
    /\ MutateDict(d, how, k, l)
    /\ Step
    /\ last' = Result("mutate_input", <<d, how, k, l>>, "", NoRef)
    /\ UNCHANGED <<locs, inputs, returned, bStart, worlds, game>>

\* ... a mapping that get_all_locations returned
MutateReturned(d, how, k, l) ==
    /\ d \in returned
    /\ MutateDict(d, how, k, l)
    /\ Step
    /\ last' = Result("mutate_returned", <<d, how, k, l>>, "", NoRef)
    /\ UNCHANGED <<locs, inputs, returned, bStart, worlds, game>>

----------------------------------------------------------------------------
(* World operations                                                        *)

\* World(locations, starting_location_sid) called directly by the caller
WorldNew(d, start) ==
    /\ d \in inputs
    /\ Step
    /\ Len(dicts) < MaxDicts
    /\ Len(worlds) < MaxWorlds
    /\ LET r == WorldInit(dicts, d, start)
       IN  /\ dicts' = r.dicts
           /\ worlds' = IF r.raised = "" THEN Append(worlds, r.world) ELSE worlds
           /\ last' = Result("World", <<dicts[d], start>>, r.raised,
                             IF r.raised = "" THEN Len(worlds) + 1 ELSE NoRef)
    /\ UNCHANGED <<locs, inputs, returned, bStart, game>>

\* world.get_all_locations()
WorldGetAllLocations(w) ==
    /\ Step
    /\ Len(dicts) < MaxDicts
    /\ LET r == GetAllLocations(dicts, worlds[w])
       IN  /\ dicts' = r.dicts
           /\ returned' = returned \cup {r.ret}
           /\ last' = Result("get_all_locations", <<w>>, "", r.ret)
    /\ UNCHANGED <<locs, inputs, bStart, worlds, game>>

----------------------------------------------------------------------------
(* WorldBuilder operations                                                 *)

\* builder.add_location(location): self._locations[location.sid] = location
AddLocation(l) ==
    /\ dicts' = [dicts EXCEPT ![BuilderDict] = DictSet(dicts[BuilderDict], locs[l].sid, l)]
    /\ Step
    /\ last' = Result("add_location", <<l>>, "", NoRef)
    /\ UNCHANGED <<locs, inputs, returned, bStart, worlds, game>>

\* builder.set_starting_location(location_sid)
SetStartingLocation(sid) ==
    /\ bStart' = sid
    /\ Step
    /\ last' = Result("set_starting_location", <<sid>>, "", NoRef)
    /\ UNCHANGED <<locs, dicts, inputs, returned, worlds, game>>

\* builder._clear()
BuilderClear ==
    /\ LET c == Clear(dicts[BuilderDict])
       IN  /\ dicts' = [dicts EXCEPT ![BuilderDict] = c.locations]
           /\ bStart' = c.start
    /\ Step
    /\ last' = Result("_clear", <<>>, "", NoRef)
    /\ UNCHANGED <<locs, inputs, returned, worlds, game>>

\* builder._build()
BuilderBuild ==
    /\ Step
    /\ Len(dicts) < MaxDicts
    /\ Len(worlds) < MaxWorlds
    /\ LET r == Build(dicts, bStart)
       IN  /\ dicts' = r.dicts
           /\ worlds' = IF r.raised = "" THEN Append(worlds, r.world) ELSE worlds
           /\ last' = Result("_build", <<dicts[BuilderDict], bStart>>, r.raised,
                             IF r.raised = "" THEN Len(worlds) + 1 ELSE NoRef)
    /\ UNCHANGED <<locs, inputs, returned, bStart, game>>

\* builder.create_starter_world(entrance_sid, north_corridor_sid, east_chamber_sid, torch_sid)
CreateStarterWorld(entrance_sid, north_corridor_sid, east_chamber_sid, torch_sid) ==
    /\ Len(locs) + 3 <= MaxLocs
    /\ Step
    /\ Len(dicts) < MaxDicts
    /\ Len(worlds) < MaxWorlds
    /\ LET c == Clear(dicts[BuilderDict])
           made == StarterLocations(entrance_sid, north_corridor_sid, east_chamber_sid, torch_sid)
           n == Len(locs)
           d1 == DictSet(c.locations, entrance_sid, n + 1)
           d2 == DictSet(d1, north_corridor_sid, n + 2)
           d3 == DictSet(d2, east_chamber_sid, n + 3)
           r == Build([dicts EXCEPT ![BuilderDict] = d3], entrance_sid)
       IN  /\ locs' = locs \o made
           /\ bStart' = entrance_sid
           /\ dicts' = r.dicts
           /\ worlds' = IF r.raised = "" THEN Append(worlds, r.world) ELSE worlds
           /\ last' = Result("create_starter_world",
                             <<entrance_sid, north_corridor_sid, east_chamber_sid, torch_sid,
                               dicts[BuilderDict]>>,
                             r.raised, IF r.raised = "" THEN Len(worlds) + 1 ELSE NoRef)
    /\ UNCHANGED <<inputs, returned, game>>

----------------------------------------------------------------------------
(* Starting games                                                          *)

\* The composition: InMemoryWorldRepository(world), InMemoryPlayerRepository(),
\* StartGameCommandHandler(player_repository, world_repository)
Wire(w) ==
    /\ repoWorld = NoRef
    /\ repoWorld' = w
    /\ store' = <<>>
    /\ Step
    /\ last' = Result("wire", <<w>>, "", NoRef)
    /\ UNCHANGED <<locs, dicts, inputs, returned, bStart, worlds, plrs, calls, boundedBag>>

\* handler.execute(StartGameCommand(player_name, player_sid))
StartGame(player_name, player_sid) ==
    /\ Step
    /\ repoWorld # NoRef
    /\ Len(plrs) < MaxPlayers
    /\ LET r == Execute(dicts, locs, plrs, store, worlds[repoWorld], player_name, player_sid)
       IN  /\ plrs' = r.plrs
           /\ store' = r.store
           /\ last' = Result("execute", <<player_name, player_sid>>, r.raised,
                             [response |-> r.response, saves |-> r.saves])
    /\ UNCHANGED <<locs, dicts, inputs, returned, bStart, worlds, repoWorld, calls, boundedBag>>

Next ==
    \/ \E sid \in LocSids, description \in Descriptions : NewLocation(sid, description)
    \/ \E l \in LocRefs, e \in ExitInputs : LocAddExit(l, e[1], e[2])
    \/ \E l \in LocRefs, t \in ItemSids : LocAddItem(l, Torch(t))
    \/ \E l \in LocRefs, t \in ItemSids : LocRemoveItem(l, t)
    \/ \E l \in LocRefs : NewDict(l)
    \/ \E d \in inputs, how \in Hows, k \in LocSids \cup {None}, l \in LocRefs \cup {NoRef} :
           MutateInput(d, how, k, l)
    \/ \E d \in returned, how \in Hows, k \in LocSids \cup {None}, l \in LocRefs \cup {NoRef} :
           MutateReturned(d, how, k, l)
    \/ \E d \in inputs, start \in LocSids : WorldNew(d, start)
    \/ \E w \in WorldRefs : WorldGetAllLocations(w)
    \/ \E l \in LocRefs : AddLocation(l)
    \/ \E sid \in LocSids : SetStartingLocation(sid)
    \/ BuilderClear
    \/ BuilderBuild
    \/ \E s \in StarterSids, t \in ItemSids : CreateStarterWorld(s[1], s[2], s[3], t)
    \/ \E w \in WorldRefs : Wire(w)
    \/ \E player_name \in Names, player_sid \in SidInputs : StartGame(player_name, player_sid)

Spec == Init /\ [][Next]_vars

----------------------------------------------------------------------------
(* Player operations                                                       *)

\* Player.quit_game: self.is_active = False
quit_game(player) == [player EXCEPT !.is_active = FALSE]

\* Player.move_to_location that also marks the player active again.
MoveReactivates(player, new_location) ==
    [player EXCEPT !.location = new_location, !.is_active = TRUE]

\* Player.move_to_location: self.location = new_location
move_to_location(player, new_location) == [player EXCEPT !.location = new_location]

----------------------------------------------------------------------------
(* InMemoryPlayerRepository: _players maps a Sid to a Player object        *)

\* save: self._players[player.sid] = player
save(st, ps, p) == DictSet(st, ps[p].sid, p)

\* find_by_sid: self._players.get(player_sid)
find_by_sid(st, player_sid) == DictGet(st, player_sid, NoRef)

\* delete that empties the whole mapping when it finds the player.
DeleteClears(st, player_sid) ==
    IF DictHas(st, player_sid)
    THEN [store |-> <<>>, ret |-> TRUE]
    ELSE [store |-> st, ret |-> FALSE]

\* delete, first statement: the test "player_sid in self._players"
delete_test(st, player_sid) == DictHas(st, player_sid)

\* delete, second statement: del self._players[player_sid], a KeyError when
\* the key is not there
delete_remove(st, player_sid) ==
    IF DictHas(st, player_sid)
    THEN [raised |-> "", store |-> DictDel(st, player_sid)]
    ELSE [raised |-> "KeyError", store |-> st]

\* delete: if player_sid in self._players: del ...; return True; return False
delete(st, player_sid) ==
    IF delete_test(st, player_sid)
    THEN [store |-> delete_remove(st, player_sid).store, ret |-> TRUE]
    ELSE [store |-> st, ret |-> FALSE]

\* get_players_dict: the repository's own mapping, not a copy
get_players_dict(st) == st

----------------------------------------------------------------------------
(* InMemoryPlayerProjectionRepository(players, world): players is the      *)
(* mapping get_players_dict() returned, so it reads the write side's data  *)

NoDto == <<>>
UnknownLocation == "Unknown location"

\* location.description if location else "Unknown location"
LocationDescription(ls, location) ==
    IF location = NoRef THEN UnknownLocation ELSE ls[location].description

PlayerListItemDto(sid, name, location_description, is_active) ==
    [sid |-> sid, name |-> name, location_description |-> location_description,
     is_active |-> is_active]

PlayerDetailsDto(sid, name, location_sid, location_description, bag_item_count, is_active) ==
    [sid |-> sid, name |-> name, location_sid |-> location_sid,
     location_description |-> location_description,
     bag_item_count |-> bag_item_count, is_active |-> is_active]

\* Bag.item_count
item_count(bag) == Len(bag.item_sids)

\* find_all_active_players: for every active player, in the mapping's order,
\* world.get_location(player.location_sid) and a list DTO.  Reading an
\* attribute the Player object does not have raises AttributeError.
find_all_active_players(ds, ls, ps, players, world) ==
    LET active == SelectSeq(DictValues(players), LAMBDA p : ps[p].is_active)
    IN  IF \E i \in 1..Len(active) : "location_sid" \notin DOMAIN ps[active[i]]
        THEN [raised |-> "AttributeError", ret |-> <<>>]
        ELSE [raised |-> "",
              ret |-> [i \in 1..Len(active) |->
                          LET player == ps[active[i]]
                          IN  PlayerListItemDto(
                                  player.sid, player.name,
                                  LocationDescription(
                                      ls, get_location(ds, world, player.location_sid)),
                                  player.is_active)]]

\* get_player_details(player_sid): Sid(player_sid) raises ValueError for a
\* text that is not an identifier; a missing player gives None; for a player
\* that is found the DTO is built from player.location_sid.
get_player_details(ds, ls, ps, players, world, player_sid) ==
    IF ~IsValid(player_sid)
    THEN [raised |-> "ValueError", msg |-> <<"Invalid Sid format: ", player_sid>>,
          ret |-> NoDto]
    ELSE
    LET p == DictGet(players, player_sid, NoRef)
    IN  IF p = NoRef
        THEN [raised |-> "", msg |-> <<>>, ret |-> NoDto]
        ELSE IF "location_sid" \notin DOMAIN ps[p]
        THEN [raised |-> "AttributeError", msg |-> <<"location_sid">>, ret |-> NoDto]
        ELSE [raised |-> "", msg |-> <<>>,
              ret |-> PlayerDetailsDto(
                          ps[p].sid, ps[p].name, ps[p].location_sid,
                          LocationDescription(
                              ls, get_location(ds, world, ps[p].location_sid)),
                          item_count(ps[p].bag), ps[p].is_active)]

\* GetPlayerDetailsQueryHandler.handle and GetAllActivePlayersQueryHandler.handle
\* pass the call on and return its result unchanged.
HandleGetPlayerDetails(ds, ls, ps, players, world, player_sid) ==
    get_player_details(ds, ls, ps, players, world, player_sid)

----------------------------------------------------------------------------
(* The player store on its own: a starter World, the two repositories      *)
(* wired to it, and a caller that creates players, changes them and calls  *)
(* the repositories, one call after the other.                             *)

\* Identifiers of players, and the Location objects a caller gives a player:
\* the World's starting location and a room of its own that is in no World.
PlayerSids == {SidText("7"), SidText("8")}
TestRoom == Location(SidText("4"), "Test room")
StartRef == 1
TestRoomRef == 4
Destinations == {StartRef, TestRoomRef}

InitStore ==
    LET made == StarterLocations(S1, S2, S3, SidText("9"))
        d == << <<S1, 1>>, <<S2, 2>>, <<S3, 3>> >>
        r == Build(<<d>>, S1)
    IN  /\ locs = made \o <<TestRoom>>
        /\ dicts = r.dicts
        /\ inputs = {}
        /\ returned = {}
        /\ bStart = S1
        /\ worlds = <<r.world>>
        /\ plrs = <<>>
        /\ store = <<>>            \* InMemoryPlayerRepository.__init__
        /\ repoWorld = 1
        /\ calls = [t \in Threads |-> Idle]
        /\ boundedBag = BoundedBag(<<>>, DefaultCapacity)
        /\ ops = 0
        /\ last = Result("wire", <<1>>, "", NoRef)

world == <<locs, dicts, inputs, returned, bStart, worlds, repoWorld>>

PlayerRefs == 1..Len(plrs)

\* Player.create(sid, name, location, Bag()) called by the caller
PlayerNew(sid, name, l) ==
    /\ Len(plrs) < MaxPlayers
    /\ LET created == PlayerCreate(sid, name, l, Bag)
       IN  /\ plrs' = IF created.raised = "" THEN Append(plrs, created.player) ELSE plrs
           /\ last' = Result("Player.create", <<sid, name, l>>, created.raised,
                             IF created.raised = "" THEN Len(plrs) + 1 ELSE created.msg)
    /\ UNCHANGED <<world, boundedBag, store, calls, ops>>

\* player.quit_game()
PlayerQuitGame(p) ==
    /\ plrs' = [plrs EXCEPT ![p] = quit_game(plrs[p])]
    /\ last' = Result("quit_game", <<p>>, "", NoRef)
    /\ UNCHANGED <<world, boundedBag, store, calls, ops>>

\* player.move_to_location(new_location)
PlayerMoveToLocation(p, l) ==
    /\ plrs' = [plrs EXCEPT ![p] = move_to_location(plrs[p], l)]
    /\ last' = Result("move_to_location", <<p, l>>, "", NoRef)
    /\ UNCHANGED <<world, boundedBag, store, calls, ops>>

\* repository.save(player)
Save(p) ==
    /\ store' = save(store, plrs, p)
    /\ last' = Result("save", <<p>>, "", NoRef)
    /\ UNCHANGED <<world, boundedBag, plrs, calls, ops>>

\* repository.find_by_sid(player_sid)
FindBySid(player_sid) ==
    /\ last' = Result("find_by_sid", <<player_sid>>, "", find_by_sid(store, player_sid))
    /\ UNCHANGED <<world, boundedBag, plrs, store, calls, ops>>

\* repository.delete(player_sid)
Delete(player_sid) ==
    /\ LET r == delete(store, player_sid)
       IN  /\ store' = r.store
           /\ last' = Result("delete", <<player_sid>>, "", r.ret)
    /\ UNCHANGED <<world, boundedBag, plrs, calls, ops>>

\* GetPlayerDetailsQueryHandler.handle(GetPlayerDetailsQuery(player_sid))
GetPlayerDetails(player_sid) ==
    /\ LET r == HandleGetPlayerDetails(dicts, locs, plrs, get_players_dict(store),
                                       worlds[repoWorld], player_sid)
       IN  last' = Result("get_player_details", <<player_sid>>, r.raised, r.ret)
    /\ UNCHANGED <<world, boundedBag, plrs, store, calls, ops>>

\* GetAllActivePlayersQueryHandler.handle(GetAllActivePlayersQuery())
FindAllActivePlayers ==
    /\ LET r == find_all_active_players(dicts, locs, plrs, get_players_dict(store),
                                        worlds[repoWorld])
       IN  last' = Result("find_all_active_players", <<>>, r.raised, r.ret)
    /\ UNCHANGED <<world, boundedBag, plrs, store, calls, ops>>

\* InMemoryWorldRepository._create_default_world: WorldBuilder() and then
\* builder.create_starter_world() with no argument, while the method has four
\* required parameters: Python raises TypeError before the method body runs
StarterWorldParams == 4
CreateDefaultWorld ==
    LET supplied == <<>>
    IN  IF Len(supplied) # StarterWorldParams
        THEN [raised |-> "TypeError", world |-> NoRef]
        ELSE [raised |-> "", world |-> NoRef]

\* InMemoryWorldRepository.__init__(world): self._world = world or
\* self._create_default_world()
WorldRepositoryInit(w) ==
    IF w # NoRef THEN [raised |-> "", world |-> w] ELSE CreateDefaultWorld

\* InMemoryWorldRepository(world) or InMemoryWorldRepository() by the caller;
\* the result is what get_world() of the new repository returns
WorldRepositoryNew(w) ==
    /\ LET r == WorldRepositoryInit(w)
       IN  last' = Result("InMemoryWorldRepository", <<w>>, r.raised, r.world)
    /\ UNCHANGED <<world, boundedBag, plrs, store, calls, ops>>

\* Sid(value) called by the caller; the result is str() of the new Sid
SidNew(value) ==
    /\ LET r == SidInit(value)
       IN  last' = Result("Sid", <<value>>, r.raised, r.sid)
    /\ UNCHANGED <<world, boundedBag, plrs, store, calls, ops>>

NextStore ==
    \/ \E sid \in PlayerSids, name \in Names, l \in Destinations : PlayerNew(sid, name, l)
    \/ \E p \in PlayerRefs : PlayerQuitGame(p)
    \/ \E p \in PlayerRefs, l \in Destinations : PlayerMoveToLocation(p, l)
    \/ \E p \in PlayerRefs : Save(p)
    \/ \E player_sid \in PlayerSids : FindBySid(player_sid)
    \/ \E player_sid \in PlayerSids : Delete(player_sid)
    \/ \E player_sid \in SidInputs : GetPlayerDetails(player_sid)
    \/ FindAllActivePlayers
    \/ \E value \in SidInputs : SidNew(value)
    \/ \E w \in WorldRefs \cup {NoRef} : WorldRepositoryNew(w)

SpecStore == InitStore /\ [][NextStore]_vars

----------------------------------------------------------------------------
(* The player repository called from several threads.  The repository has  *)
(* no lock, so a thread can be suspended between two statements of a       *)
(* method: save is one statement, delete is a test and then a removal.     *)

Call(op, sid, pc, raised, ret) ==
    [op |-> op, sid |-> sid, pc |-> pc, raised |-> raised, ret |-> ret]

\* Two players, made by Player.create, that the threads save and delete.
InitThreads ==
    LET made == StarterLocations(S1, S2, S3, SidText("9"))
        d == << <<S1, 1>>, <<S2, 2>>, <<S3, 3>> >>
        r == Build(<<d>>, S1)
    IN  /\ locs = made \o <<TestRoom>>
        /\ dicts = r.dicts
        /\ inputs = {}
        /\ returned = {}
        /\ bStart = S1
        /\ worlds = <<r.world>>
        /\ plrs = << PlayerCreate(SidText("7"), <<"A", "l">>, StartRef, Bag).player,
                     PlayerCreate(SidText("8"), <<"A", "l">>, StartRef, Bag).player >>
        /\ store = <<>>
        /\ repoWorld = 1
        /\ calls = [t \in Threads |-> Idle]
        /\ boundedBag = BoundedBag(<<>>, DefaultCapacity)
        /\ ops = 0
        /\ last = Result("wire", <<1>>, "", NoRef)

\* thread t calls repository.save(player): one statement
ThreadSave(t, p) ==
    /\ calls[t].pc = "idle"
    /\ store' = save(store, plrs, p)
    /\ calls' = [calls EXCEPT ![t] = Call("save", plrs[p].sid, "idle", "", FALSE)]
    /\ UNCHANGED <<world, boundedBag, plrs, ops, last>>

\* thread t enters repository.delete(player_sid) and runs the test; when the
\* player is not there the call returns False at once
ThreadDeleteTest(t, player_sid) ==
    /\ calls[t].pc = "idle"
    /\ calls' = [calls EXCEPT ![t] =
                    IF delete_test(store, player_sid)
                    THEN Call("delete", player_sid, "del", "", FALSE)
                    ELSE Call("delete", player_sid, "idle", "", FALSE)]
    /\ UNCHANGED <<world, boundedBag, plrs, store, ops, last>>

\* thread t, having found the player, runs the removal and returns True
ThreadDeleteRemove(t) ==
    /\ calls[t].pc = "del"
    /\ LET r == delete_remove(store, calls[t].sid)
       IN  /\ store' = r.store
           /\ calls' = [calls EXCEPT ![t] =
                           Call("delete", calls[t].sid, "idle", r.raised, r.raised = "")]
    /\ UNCHANGED <<world, boundedBag, plrs, ops, last>>

NextThreads ==
    \/ \E t \in Threads, p \in PlayerRefs : ThreadSave(t, p)
    \/ \E t \in Threads, player_sid \in PlayerSids : ThreadDeleteTest(t, player_sid)
    \/ \E t \in Threads : ThreadDeleteRemove(t)

SpecThreads == InitThreads /\ [][NextThreads]_vars

----------------------------------------------------------------------------
(* One Location and its exits: a caller that adds exits, connected and     *)
(* blocked, in any order and more than once, and asks for the directions   *)

\* The exits the caller adds to the hub room: in three directions, each to a
\* destination or to None.
HubExits == {"north", "south", "east"} \X {S2, None}

InitLocation ==
    /\ locs = <<Location(S1, "Hub room")>>
    /\ dicts = << <<>> >>
    /\ inputs = {}
    /\ returned = {}
    /\ bStart = None
    /\ worlds = <<>>
    /\ plrs = <<>>
    /\ store = <<>>
    /\ repoWorld = NoRef
    /\ calls = [t \in Threads |-> Idle]
    /\ boundedBag = BoundedBag(<<>>, DefaultCapacity)
    /\ ops = 0
    /\ last = Result("Location", <<S1, "Hub room">>, "", 1)

\* location.get_available_directions()
LocGetAvailableDirections(l) ==
    /\ Step
    /\ last' = Result("get_available_directions", <<l>>, "", get_available_directions(locs[l]))
    /\ UNCHANGED <<locs, dicts, inputs, returned, bStart, worlds, game>>

NextLocation ==
    \/ \E l \in LocRefs, e \in HubExits : LocAddExit(l, e[1], e[2])
    \/ \E l \in LocRefs : LocGetAvailableDirections(l)

SpecLocation == InitLocation /\ [][NextLocation]_vars

----------------------------------------------------------------------------
(* One capacity-bounded Bag, empty at first, and a caller that adds and    *)
(* removes items                                                           *)

\* The items the caller has: one more than the largest capacity.
BagItemSids == {SidText("5"), SidText("6"), SidText("8"), SidText("9")}
BagItem(item_sid) == Item(item_sid, "Key", "A rusty key", <<"pick">>)

InitBag ==
    /\ locs = <<>>
    /\ dicts = << <<>> >>
    /\ inputs = {}
    /\ returned = {}
    /\ bStart = None
    /\ worlds = <<>>
    /\ plrs = <<>>
    /\ store = <<>>
    /\ repoWorld = NoRef
    /\ calls = [t \in Threads |-> Idle]
    /\ boundedBag \in {BoundedBag(<<>>, c) : c \in 0..MaxCapacity}
    /\ ops = 0
    /\ last = Result("Bag", <<>>, "", NoRef)

\* bag.add_item(item)
BagAdd(item) ==
    /\ LET r == BagAddItem(boundedBag, item)
       IN  /\ boundedBag' = r.bag
           /\ last' = Result("bag.add_item", <<item>>, r.raised, r.msg)
    /\ UNCHANGED <<world, plrs, store, calls, ops>>

\* bag.remove_item(item_sid)
BagRemove(item_sid) ==
    /\ LET r == BagRemoveItem(boundedBag, item_sid)
       IN  /\ boundedBag' = r.bag
           /\ last' = Result("bag.remove_item", <<item_sid>>, "", r.ret)
    /\ UNCHANGED <<world, plrs, store, calls, ops>>

NextBag ==
    \/ \E item_sid \in BagItemSids : BagAdd(BagItem(item_sid))
    \/ \E item_sid \in BagItemSids : BagRemove(item_sid)

SpecBag == InitBag /\ [][NextBag]_vars

----------------------------------------------------------------------------
(* One WorldBuilder used for several builds.  The caller has constructed   *)
(* two Locations and has called add_location and set_starting_location for *)
(* the first one.                                                          *)

InitBuilder ==
    /\ locs = <<Location(S1, "First world room"), Location(S2, "Second world room")>>
    /\ dicts = << << <<S1, 1>> >> >>
    /\ inputs = {}
    /\ returned = {}
    /\ bStart = S1
    /\ worlds = <<>>
    /\ plrs = <<>>
    /\ store = <<>>
    /\ repoWorld = NoRef
    /\ calls = [t \in Threads |-> Idle]
    /\ boundedBag = BoundedBag(<<>>, DefaultCapacity)
    /\ ops = 0
    /\ last = Result("set_starting_location", <<S1>>, "", NoRef)

NextBuilder ==
    \/ \E l \in LocRefs : AddLocation(l)
    \/ \E sid \in LocSids : SetStartingLocation(sid)
    \/ BuilderBuild
    \/ BuilderClear

SpecBuilder == InitBuilder /\ [][NextBuilder]_vars

----------------------------------------------------------------------------
(* The read side: the repositories and handlers wired to a starter World,  *)
(* a caller that starts games and asks the queries and the World's         *)
(* accessors in any order.                                                 *)

\* Identifiers the caller asks the World about: those of the starter world's
\* locations and item, and one of each that the World does not have.
AskedLocSids == LocSids \cup {SidText("4")}
AskedItemSids == ItemSids \cup {SidText("5")}

\* world_repository.get_world()
GetWorld ==
    /\ last' = Result("get_world", <<>>, "", repoWorld)
    /\ UNCHANGED <<world, boundedBag, plrs, store, calls, ops>>

\* world.get_location(location_sid)
WorldGetLocation(w, location_sid) ==
    /\ last' = Result("get_location", <<w, location_sid>>, "",
                      get_location(dicts, worlds[w], location_sid))
    /\ UNCHANGED <<world, boundedBag, plrs, store, calls, ops>>

\* world.get_starting_location()
WorldGetStartingLocation(w) ==
    /\ LET r == get_starting_location(dicts, worlds[w])
       IN  last' = Result("get_starting_location", <<w>>, r.raised, r.ret)
    /\ UNCHANGED <<world, boundedBag, plrs, store, calls, ops>>

\* world.has_location(location_sid)
WorldHasLocation(w, location_sid) ==
    /\ last' = Result("has_location", <<w, location_sid>>, "",
                      has_location(dicts, worlds[w], location_sid))
    /\ UNCHANGED <<world, boundedBag, plrs, store, calls, ops>>

\* world.get_item_by_sid(item_sid)
WorldGetItemBySid(w, item_sid) ==
    /\ last' = Result("get_item_by_sid", <<w, item_sid>>, "",
                      get_item_by_sid(dicts, locs, worlds[w], item_sid))
    /\ UNCHANGED <<world, boundedBag, plrs, store, calls, ops>>

NextQueries ==
    \/ \E player_name \in Names, player_sid \in SidInputs : StartGame(player_name, player_sid)
    \/ \E player_sid \in PlayerSids : FindBySid(player_sid)
    \/ \E player_sid \in SidInputs : GetPlayerDetails(player_sid)
    \/ FindAllActivePlayers
    \/ GetWorld
    \/ \E w \in WorldRefs, location_sid \in AskedLocSids : WorldGetLocation(w, location_sid)
    \/ \E w \in WorldRefs : WorldGetStartingLocation(w)
    \/ \E w \in WorldRefs : WorldGetAllLocations(w)
    \/ \E w \in WorldRefs, location_sid \in AskedLocSids : WorldHasLocation(w, location_sid)
    \/ \E w \in WorldRefs, item_sid \in AskedItemSids : WorldGetItemBySid(w, item_sid)

SpecQueries == InitStore /\ [][NextQueries]_vars

----------------------------------------------------------------------------
(* Properties                                                              *)

\* What a World shows through starting_location_sid, has_location and get_location.
WorldView(ds, w) ==
    [ids |-> DictKeys(ds[w.locations]),
     start |-> w.start,
     has |-> [k \in LocSids |-> has_location(ds, w, k)],
     get |-> [k \in LocSids |-> get_location(ds, w, k)]]

\* The exits and items of a World's locations, as read through the World.
WorldGraph(ds, ls, w) ==
    [k \in DictKeys(ds[w.locations]) |->
        [exits |-> ls[get_location(ds, w, k)].exits,
         items |-> ls[get_location(ds, w, k)].items]]

BuilderOps == {"add_location", "set_starting_location", "_clear", "_build",
               "create_starter_world"}

\* C1: in every reachable state, whatever was done since its construction,
\* every World's starting_location_sid is a key of its locations mapping, and
\* get_starting_location() returns a Location rather than failing.
StartingLocationAlwaysPresent ==
    \A w \in WorldRefs :
        /\ has_location(dicts, worlds[w], worlds[w].start)
        /\ get_starting_location(dicts, worlds[w]).raised = ""
        /\ get_starting_location(dicts, worlds[w]).ret \in LocRefs

\* C1 witness: a World exists whose starting location the builder that made it
\* no longer holds, the builder having just been cleared.
StartingLocationWitness ==
    /\ last.op = "_clear"
    /\ \E w \in WorldRefs : ~DictHas(dicts[BuilderDict], worlds[w].start)

\* C2: World(locations, starting_sid) raises exactly when starting_sid is not a
\* key of locations; when it does not raise, get_starting_location() of the
\* new World is the Location that locations mapped starting_sid to.
WorldConstructionContract ==
    last.op = "World" =>
        /\ (last.raised # "") <=> ~DictHas(last.args[1], last.args[2])
        /\ last.raised = "" =>
              /\ last.ret \in WorldRefs
              /\ get_starting_location(dicts, worlds[last.ret]).raised = ""
              /\ get_starting_location(dicts, worlds[last.ret]).ret
                    = DictGet(last.args[1], last.args[2], NoRef)

\* C2 witness: a World has just been constructed from a caller's mapping.
WorldConstructionWitness ==
    /\ last.op = "World"
    /\ last.raised = ""
    /\ DictHas(last.args[1], last.args[2])

\* C3: a step that is a WorldBuilder operation, or a mutation of a mapping the
\* caller built (and possibly passed to World's constructor), leaves every
\* existing World's identifiers, starting_location_sid, has_location and
\* get_location results as they were.
BuiltWorldIndependent ==
    [][ last'.op \in BuilderOps \cup {"mutate_input"} =>
          \A w \in WorldRefs :
              /\ worlds'[w] = worlds[w]
              /\ WorldView(dicts', worlds'[w]) = WorldView(dicts, worlds[w]) ]_vars

\* C3 witness: after a World was built, the builder took another location, so
\* that the builder's mapping and the World's differ.
BuiltWorldWitness ==
    /\ last.op = "add_location"
    /\ \E w \in WorldRefs :
          DictKeys(dicts[BuilderDict]) # DictKeys(dicts[worlds[w].locations])

\* C4: a step that changes a mapping returned by get_all_locations() changes
\* neither what has_location / get_location answer on any World nor the
\* entries a further get_all_locations() call returns.
ReturnedCopyIndependent ==
    [][ last'.op = "mutate_returned" =>
          \A w \in WorldRefs :
              /\ WorldView(dicts', worlds'[w]) = WorldView(dicts, worlds[w])
              /\ LET before == GetAllLocations(dicts, worlds[w])
                     after == GetAllLocations(dicts', worlds'[w])
                 IN  after.dicts[after.ret] = before.dicts[before.ret] ]_vars

\* C4 witness: a returned mapping was changed and now differs from the World's.
ReturnedCopyWitness ==
    /\ last.op = "mutate_returned"
    /\ \E w \in WorldRefs : dicts[last.args[1]] # dicts[worlds[w].locations]

\* C5: no step changes the exits or the items of a location as read through a
\* World that already exists.
WorldGraphImmutable ==
    [][ \A w \in WorldRefs :
          WorldGraph(dicts', locs', worlds'[w]) = WorldGraph(dicts, locs, worlds[w]) ]_vars

\* C6: _build() raises exactly when the builder has no starting location or
\* one that is not a key of its locations; otherwise it returns a World with
\* that starting location and the builder's locations.
BuildContract ==
    last.op = "_build" =>
        /\ (last.raised = "ValueError")
              <=> (last.args[2] = None \/ ~DictHas(last.args[1], last.args[2]))
        /\ last.raised \in {"", "ValueError"}
        /\ last.raised = "" =>
              /\ last.ret \in WorldRefs
              /\ worlds[last.ret].start = last.args[2]
              /\ dicts[worlds[last.ret].locations] = last.args[1]

\* C6 witness: _build() has just failed although a starting location was set.
BuildWitness ==
    /\ last.op = "_build"
    /\ last.raised = "ValueError"
    /\ last.args[2] # None

StarterDescriptions == {EntranceDescription, NorthCorridorDescription, EastChamberDescription}

\* C7: the World returned by create_starter_world(e, n, x, t) has exactly the
\* identifiers {e, n, x}, starts at e, and holds only starter locations,
\* whatever the builder held when it was called.
StarterWorldIsFresh ==
    last.op = "create_starter_world" =>
        /\ last.raised = ""
        /\ last.ret \in WorldRefs
        /\ LET w == worlds[last.ret]
           IN  /\ DictKeys(dicts[w.locations]) = {last.args[1], last.args[2], last.args[3]}
               /\ w.start = last.args[1]
               /\ \A k \in DictKeys(dicts[w.locations]) :
                     locs[get_location(dicts, w, k)].description \in StarterDescriptions

\* C7 witness: create_starter_world was called on a builder that held a
\* location under an identifier the call did not supply.
StarterWorldFreshWitness ==
    /\ last.op = "create_starter_world"
    /\ DictKeys(last.args[5]) \ {last.args[1], last.args[2], last.args[3]} # {}

\* The starter graph as seen through World w for identifiers e, n, x, t.
StarterShape(w, e, n, x, t) ==
    LET entrance == locs[get_starting_location(dicts, w).ret]
    IN  /\ entrance.description = EntranceDescription
        /\ {get_available_directions(entrance)[i] :
               i \in 1..Len(get_available_directions(entrance))} = {"north", "east"}
        /\ DictGet(entrance.exits, "north", None) = n
        /\ DictGet(entrance.exits, "east", None) = x
        /\ has_location(dicts, w, n)
        /\ locs[get_location(dicts, w, n)].description = NorthCorridorDescription
        /\ DictGet(locs[get_location(dicts, w, n)].exits, "south", None) = e
        /\ has_location(dicts, w, x)
        /\ locs[get_location(dicts, w, x)].description = EastChamberDescription
        /\ DictGet(locs[get_location(dicts, w, x)].exits, "west", None) = e
        /\ \A k \in DictKeys(dicts[w.locations]) :
              \A i \in 1..Len(locs[get_location(dicts, w, k)].exits) :
                 LET dest == locs[get_location(dicts, w, k)].exits[i][2]
                 IN  dest # None => has_location(dicts, w, dest)
        /\ Len(entrance.items) = 1
        /\ entrance.items[1].sid = t
        /\ entrance.items[1].name = "Torch"
        /\ entrance.items[1].available_actions = <<"pick", "use">>
        /\ get_item_by_sid(dicts, locs, w, t) = entrance.items[1]

\* C8 as stated: for any identifiers, create_starter_world returns the fixed
\* starter graph.
StarterShapeAnyIdentifiers ==
    last.op = "create_starter_world" =>
        /\ last.ret \in WorldRefs
        /\ StarterShape(worlds[last.ret], last.args[1], last.args[2], last.args[3], last.args[4])

\* C8 amended: for pairwise different location identifiers e, n, x (and any
\* torch identifier), create_starter_world returns the fixed starter graph.
StarterShapeDistinctIdentifiers ==
    ( /\ last.op = "create_starter_world"
      /\ Cardinality({last.args[1], last.args[2], last.args[3]}) = 3 ) =>
        /\ last.ret \in WorldRefs
        /\ StarterShape(worlds[last.ret], last.args[1], last.args[2], last.args[3], last.args[4])

\* C8 witness: a starter world was made from three different identifiers.
StarterShapeWitness ==
    /\ last.op = "create_starter_world"
    /\ last.raised = ""
    /\ Cardinality({last.args[1], last.args[2], last.args[3]}) = 3

\* The identifier format of the specification: six digits, a hyphen, twelve
\* digits, a hyphen, eight digits, and nothing else.
WellFormed(value) ==
    /\ Len(value) = 28
    /\ \A i \in 1..28 : IF i \in {7, 20} THEN value[i] = "-" ELSE value[i] \in Digits

NonBlank(name) == \E i \in 1..Len(name) : name[i] \notin Whitespace

\* C9: an execute with a non-blank name and a well-formed identifier returns
\* success with the identifier, the trimmed name, the starting location's
\* description, exits and items and an empty bag, having saved once an active
\* player located at the starting location.
StartGameSucceeds ==
    ( /\ last.op = "execute"
      /\ NonBlank(last.args[1])
      /\ WellFormed(last.args[2]) ) =>
        /\ last.raised = ""
        /\ last.ret.response.success
        /\ last.ret.saves = 1
        /\ LET data == last.ret.response.player_data
               start == locs[get_starting_location(dicts, worlds[repoWorld]).ret]
               stored == plrs[DictGet(store, last.args[2], NoRef)]
           IN  /\ data.sid = last.args[2]
               /\ data.name = Strip(last.args[1])
               /\ data.location.description = start.description
               /\ data.location.exits = get_available_directions(start)
               /\ data.location.items =
                     [i \in 1..Len(start.items) |-> ItemData(start.items[i])]
               /\ data.bag.items = <<>>
               /\ stored.is_active
               /\ stored.sid = last.args[2]

\* C10: a step that executes a command with an empty or whitespace-only name
\* and a well-formed identifier returns success = false with the message
\* "Player name cannot be empty", calls save not at all and leaves the player
\* store as it was.
BlankNameRejected ==
    [][ ( /\ last'.op = "execute"
          /\ ~NonBlank(last'.args[1])
          /\ WellFormed(last'.args[2]) ) =>
            /\ last'.raised = ""
            /\ last'.ret.response.success = FALSE
            /\ last'.ret.response.error_message = <<"Player name cannot be empty">>
            /\ last'.ret.saves = 0
            /\ store' = store
            /\ plrs' = plrs ]_vars

\* C10 witness: a command with a whitespace-only name was refused.
BlankNameWitness ==
    /\ last.op = "execute"
    /\ last.args[1] # <<>>
    /\ ~NonBlank(last.args[1])
    /\ WellFormed(last.args[2])
    /\ last.ret.response.success = FALSE

\* C11: after execute of a command whose identifier is malformed, whatever the
\* name, the response has success = false and the message "Invalid Sid format: "
\* followed by the identifier exactly as given, and save was not called.
MalformedIdentifierReported ==
    ( /\ last.op = "execute"
      /\ ~WellFormed(last.args[2]) ) =>
        /\ last.raised = ""
        /\ last.ret.response.success = FALSE
        /\ last.ret.response.error_message = <<"Invalid Sid format: ", last.args[2]>>
        /\ last.ret.saves = 0

\* C12: execute never ends by raising: every call returns a response.
NoFailureEscapes ==
    last.op = "execute" => last.raised = "" /\ last.ret.response # NoResponse

\* The start-game calls so far all had well-formed identifiers, pairwise
\* different, and non-blank names (every call that reached save put one Player
\* object on the heap).
DistinctWellFormedPlayers ==
    /\ \A i \in 1..Len(plrs) : WellFormed(plrs[i].sid)
    /\ \A i, j \in 1..Len(plrs) : i # j => plrs[i].sid # plrs[j].sid

\* C13: after a start-game call with a well-formed identifier and a non-blank
\* name, all identifiers so far being pairwise different, the call has
\* succeeded at the starting location, and the store holds exactly one player
\* per identifier supplied so far, each at the starting location and active.
IndependentPlayersAllStart ==
    ( /\ last.op = "execute"
      /\ NonBlank(last.args[1])
      /\ WellFormed(last.args[2])
      /\ DistinctWellFormedPlayers ) =>
        LET start == locs[get_starting_location(dicts, worlds[repoWorld]).ret]
        IN  /\ last.raised = ""
            /\ last.ret.response.success
            /\ last.ret.response.player_data.sid = last.args[2]
            /\ last.ret.response.player_data.location.description = start.description
            /\ Len(store) = Len(plrs)
            /\ \A i \in 1..Len(plrs) :
                   /\ DictGet(store, plrs[i].sid, NoRef) = i
                   /\ plrs[i].location = start.sid
                   /\ plrs[i].is_active

\* C14: a step that executes a command whose identifier is already a key of
\* the player store returns an error response and leaves the store and the
\* stored player as they were.
DuplicateIdentifierRefused ==
    [][ ( /\ last'.op = "execute"
          /\ DictHas(store, last'.args[2]) ) =>
            /\ last'.raised = ""
            /\ last'.ret.response.success = FALSE
            /\ store' = store
            /\ plrs' = plrs ]_vars

\* C15: the player store is a map keyed by identifier.  A save step makes
\* find_by_sid of the saved player's identifier return that very Player
\* object, with the fields it had, and changes no other identifier's entry; a
\* delete(s) step returns true exactly when find_by_sid(s) found a player
\* before it, afterwards find_by_sid(s) finds none and every other
\* identifier's entry is as before, and a delete that returns false leaves the
\* store as it was; a find_by_sid step returns the entry and, like every other
\* step, changes no entry.
StoreIsMap ==
    [][ /\ last'.op = "save" =>
              LET p == last'.args[1]
              IN  /\ find_by_sid(store', plrs[p].sid) = p
                  /\ plrs'[p] = plrs[p]
                  /\ \A s \in PlayerSids \ {plrs[p].sid} :
                         find_by_sid(store', s) = find_by_sid(store, s)
        /\ last'.op = "delete" =>
              LET player_sid == last'.args[1]
              IN  /\ last'.ret = (find_by_sid(store, player_sid) # NoRef)
                  /\ find_by_sid(store', player_sid) = NoRef
                  /\ \A s \in PlayerSids \ {player_sid} :
                         find_by_sid(store', s) = find_by_sid(store, s)
                  /\ (last'.ret = FALSE => store' = store)
        /\ last'.op = "find_by_sid" =>
              /\ last'.ret \in {store[i][2] : i \in 1..Len(store)} \cup {NoRef}
              /\ last'.ret # NoRef => plrs[last'.ret].sid = last'.args[1]
              /\ last'.ret = NoRef => \A i \in 1..Len(store) : store[i][1] # last'.args[1]
        /\ last'.op \notin {"save", "delete"} => store' = store ]_vars

\* C15 witness: of two stored players one was deleted (delete returned true)
\* and the other is still stored.
StoreIsMapWitness ==
    /\ last.op = "delete"
    /\ last.ret = TRUE
    /\ Len(store) = 1
    /\ find_by_sid(store, last.args[1]) = NoRef

\* C16: get_player_details of the identifier of a stored player returns a DTO
\* with that player's identifier, name, location identifier, bag item count
\* and active flag, and of a player identifier that is not stored (never
\* saved, or deleted since) returns absence.
SaveVisibleToReads ==
    ( /\ last.op = "get_player_details"
      /\ last.args[1] \in PlayerSids ) =>
        LET p == find_by_sid(store, last.args[1])
        IN  /\ last.raised = ""
            /\ IF p = NoRef
               THEN last.ret = NoDto
               ELSE /\ last.ret # NoDto
                    /\ last.ret.sid = plrs[p].sid
                    /\ last.ret.name = plrs[p].name
                    /\ last.ret.location_sid = locs[plrs[p].location].sid
                    /\ last.ret.bag_item_count = Len(plrs[p].bag.item_sids)
                    /\ last.ret.is_active = plrs[p].is_active

\* C17: get_player_details of a text under which no player is stored,
\* whether or not the text is a well-formed identifier, returns absence and
\* does not raise.
NotFoundIsAbsence ==
    ( /\ last.op = "get_player_details"
      /\ \A i \in 1..Len(store) : store[i][1] # last.args[1] ) =>
        /\ last.raised = ""
        /\ last.ret = NoDto

\* C18: find_all_active_players returns, without raising, one DTO for each
\* stored player that is active and none for the others, each DTO with the
\* player's identifier and name and its location's description.
ActivePlayersListed ==
    last.op = "find_all_active_players" =>
        LET active == {store[i][2] : i \in 1..Len(store)} \cap {p \in PlayerRefs : plrs[p].is_active}
        IN  /\ last.raised = ""
            /\ Len(last.ret) = Cardinality(active)
            /\ \A p \in active :
                   \E i \in 1..Len(last.ret) :
                       /\ last.ret[i].sid = plrs[p].sid
                       /\ last.ret[i].name = plrs[p].name
                       /\ last.ret[i].location_description = locs[plrs[p].location].description

\* C20: a Player that Player.create has just made is active; after a
\* quit_game step the player is inactive; and no step (quit_game again,
\* move_to_location, or any other) makes an inactive player active.
QuitIsOneWay ==
    [][ /\ (last'.op = "Player.create" /\ last'.raised = "") => plrs'[last'.ret].is_active
        /\ last'.op = "quit_game" => ~plrs'[last'.args[1]].is_active
        /\ \A p \in PlayerRefs : ~plrs[p].is_active => ~plrs'[p].is_active ]_vars

\* C20 witness: a player that had quit was moved to another location and is
\* still inactive.
QuitIsOneWayWitness ==
    /\ last.op = "move_to_location"
    /\ ~plrs[last.args[1]].is_active
    /\ plrs[last.args[1]].location = last.args[2]

\* C19: whatever the interleaving of the threads' save and delete calls, no
\* call ends by raising, and a delete that has found its player still finds
\* it when it removes it (test and removal act as one step).
StoreCallsAtomic ==
    \A t \in Threads :
        /\ calls[t].raised = ""
        /\ calls[t].pc = "del" => delete_test(store, calls[t].sid)

RECURSIVE TrimLeft(_)
TrimLeft(s) == IF s # <<>> /\ Head(s) \in Whitespace THEN TrimLeft(Tail(s)) ELSE s
RECURSIVE TrimRight(_)
TrimRight(s) ==
    IF s # <<>> /\ s[Len(s)] \in Whitespace THEN TrimRight(SubSeq(s, 1, Len(s) - 1)) ELSE s
Trimmed(name) == TrimRight(TrimLeft(name))

SidAcceptsExactlyPattern ==
    last.op = "Sid" =>
        /\ last.raised \in {"", "ValueError"}
        /\ (last.raised = "") <=> WellFormed(last.args[1])
        /\ last.raised = "" => last.ret = last.args[1]

\* The members of a sequence.
Members(seq) == {seq[i] : i \in 1..Len(seq)}

\* C24: an add_exit(direction, destination) step never fails; after it the
\* direction is among the available directions exactly when the destination
\* is not None, whatever was added for that direction before, every other
\* direction is available exactly when it was before the step, and no
\* direction is listed twice.  A get_available_directions step returns the
\* available directions without changing the location, and returns the same
\* sequence as the call just before it.
AvailableDirectionsContract ==
    [][ /\ last'.op = "add_exit" =>
              LET l == last'.args[1]
                  before == get_available_directions(locs[l])
                  after == get_available_directions(locs'[l])
              IN  /\ last'.raised = ""
                  /\ (last'.args[2] \in Members(after)) <=> (last'.args[3] # None)
                  /\ \A d \in Direction \ {last'.args[2]} :
                         (d \in Members(after)) <=> (d \in Members(before))
                  /\ Cardinality(Members(after)) = Len(after)
        /\ last'.op = "get_available_directions" =>
              /\ locs' = locs
              /\ Members(last'.ret) =
                     {locs[last'.args[1]].exits[i][1] : i \in 1..Len(locs[last'.args[1]].exits)}
                       \ {d \in Direction : <<d, None>> \in Members(locs[last'.args[1]].exits)}
              /\ (last.op = "get_available_directions" /\ last.args = last'.args)
                     => last'.ret = last.ret ]_vars

\* C24 witness: add_exit has just blocked a direction that had been added
\* before (its entry is not the newest one), and another direction is open.
AvailableDirectionsWitness ==
    /\ last.op = "add_exit"
    /\ last.args[3] = None
    /\ DictIdx(locs[last.args[1]].exits, last.args[2]) < Len(locs[last.args[1]].exits)
    /\ get_available_directions(locs[last.args[1]]) # <<>>

\* C25: the bounded bag never holds more than max_capacity items; an
\* add_item step raises ValueError "Bag is full, cannot add more items"
\* exactly when the bag held max_capacity items before it, and then leaves the
\* bag as it was; otherwise it does not raise and the item is in the bag.
BagWithinCapacity ==
    [][ /\ Len(boundedBag.items) <= boundedBag.max_capacity
        /\ Len(boundedBag'.items) <= boundedBag'.max_capacity
        /\ last'.op = "bag.add_item" =>
              IF Len(boundedBag.items) = boundedBag.max_capacity
              THEN /\ last'.raised = "ValueError"
                   /\ last'.ret = <<"Bag is full, cannot add more items">>
                   /\ boundedBag' = boundedBag
              ELSE /\ last'.raised = ""
                   /\ \E i \in 1..Len(boundedBag'.items) :
                          boundedBag'.items[i].sid = last'.args[1].sid
                   /\ boundedBag'.max_capacity = boundedBag.max_capacity ]_vars

\* C25 witness: add_item has just been refused on a bag that was filled, one
\* item after the other, up to its capacity.
BagFullWitness ==
    /\ last.op = "bag.add_item"
    /\ last.raised = "ValueError"
    /\ boundedBag.max_capacity = MaxCapacity
    /\ Len(boundedBag.items) = boundedBag.max_capacity

\* C26: a repository constructed with a World returns that World; constructed
\* without one, construction does not fail and the repository returns a World
\* whose starting location is the entrance hall, with exits north and east
\* and the Torch as its only item.
DefaultWorldIsStarter ==
    last.op = "InMemoryWorldRepository" =>
        /\ last.raised = ""
        /\ last.ret \in WorldRefs
        /\ last.args[1] # NoRef => last.ret = last.args[1]
        /\ last.args[1] = NoRef =>
              LET entrance == locs[get_starting_location(dicts, worlds[last.ret]).ret]
              IN  /\ entrance.description = EntranceDescription
                  /\ Members(get_available_directions(entrance)) = {"north", "east"}
                  /\ Len(entrance.items) = 1
                  /\ entrance.items[1].name = "Torch"

\* C27: a _build() step that returns a World leaves the builder's locations
\* and starting location as they were (the builder is not cleared), the new
\* World has all the locations the builder has accumulated and the builder's
\* starting location, and every World built before is as it was; and the
\* add_location and set_starting_location steps that follow a build change no
\* World built before.
BuilderReusable ==
    [][ /\ (last'.op = "_build" /\ last'.raised = "") =>
              /\ dicts'[BuilderDict] = dicts[BuilderDict]
              /\ bStart' = bStart
              /\ DictKeys(dicts'[worlds'[last'.ret].locations]) = DictKeys(dicts[BuilderDict])
              /\ worlds'[last'.ret].start = bStart
              /\ \A w \in WorldRefs : WorldView(dicts', worlds'[w]) = WorldView(dicts, worlds[w])
        /\ last'.op \in {"add_location", "set_starting_location"} =>
              /\ worlds' = worlds
              /\ \A w \in WorldRefs : WorldView(dicts', worlds'[w]) = WorldView(dicts, worlds[w])
      ]_vars

\* C27 witness: the second build has just returned; the first World has only
\* the first location and starts there, the second has both locations and
\* starts at the second.
BuilderReusableWitness ==
    /\ last.op = "_build"
    /\ last.raised = ""
    /\ Len(worlds) = 2
    /\ DictKeys(dicts[worlds[1].locations]) = {S1}
    /\ worlds[1].start = S1
    /\ DictKeys(dicts[worlds[2].locations]) = {S1, S2}
    /\ worlds[2].start = S2

\* C28: a step that executes a start-game command and does not return a
\* success response (it returns success = false, or it raises) leaves the
\* player store, and the set of Player objects, exactly as before the call.
StartGameAllOrNothing ==
    [][ ( /\ last'.op = "execute"
          /\ ~(last'.raised = "" /\ last'.ret.response.success) ) =>
            /\ store' = store
            /\ plrs' = plrs ]_vars

\* What find_by_sid(player_sid) lets a reader see: the state of the Player
\* object stored under player_sid, or None.
Committed(st, ps, player_sid) ==
    IF find_by_sid(st, player_sid) = NoRef THEN None
    ELSE ps[find_by_sid(st, player_sid)]

\* C29: a quit_game or move_to_location step, which changes a Player object
\* without saving it, changes for no identifier what a read of the store
\* shows: the state seen through find_by_sid stays the one last saved.
ReadsShowCommittedOnly ==
    [][ last'.op \in {"quit_game", "move_to_location"} =>
          \A player_sid \in PlayerSids :
              Committed(store', plrs', player_sid) = Committed(store, plrs, player_sid) ]_vars

QueryOps == {"find_all_active_players", "get_player_details", "find_by_sid",
             "get_world", "get_location", "get_starting_location",
             "get_all_locations", "has_location", "get_item_by_sid"}

\* C30: a step that is one of the queries (find_all_active_players,
\* get_player_details, find_by_sid, get_world, or a World accessor) leaves the
\* player store, every Player object, the repository's World, every World's
\* locations mapping and starting location and every Location as they were;
\* and a step that executes a start-game command leaves every World, its
\* mapping and every Location as they were.
QueriesHaveNoSideEffects ==
    [][ /\ last'.op \in QueryOps =>
              /\ store' = store
              /\ plrs' = plrs
              /\ repoWorld' = repoWorld
              /\ worlds' = worlds
              /\ locs' = locs
              /\ \A w \in WorldRefs :
                     dicts'[worlds[w].locations] = dicts[worlds[w].locations]
        /\ last'.op = "execute" =>
              /\ repoWorld' = repoWorld
              /\ worlds' = worlds
              /\ locs' = locs
              /\ \A w \in WorldRefs :
                     dicts'[worlds[w].locations] = dicts[worlds[w].locations]
      ]_vars

\* C30 witness: with a player in the store, get_all_locations has just handed
\* out a mapping, and the World still has all three starter locations.
QueriesWitness ==
    /\ last.op = "get_all_locations"
    /\ Len(store) >= 1
    /\ DictKeys(dicts[worlds[repoWorld].locations]) = {S1, S2, S3}
    /\ dicts[last.ret] = dicts[worlds[repoWorld].locations]

====
